---- MODULE Spec2Model ----
(***************************************************************************)
(* The example programs of bitset.cpp and algorithm.cpp, each modelled as  *)
(* a sequential program: prog names the example, pc the source line that   *)
(* runs next, mem the local variables of main(), out the lines written to  *)
(* std::cout, and input the literal(s) the example declares its data with. *)
(* The standard-library operations the examples call are operators, each   *)
(* computed the way the C++ standard specifies the operation.              *)
(***************************************************************************)
EXTENDS Integers, Sequences, FiniteSets, TLC

VARIABLES prog, pc, input, mem, out

vars == <<prog, pc, input, mem, out>>

(***************************************************************************)
(* Bounds and program constants                                            *)
(***************************************************************************)

\* std::bitset<8>: the width of every bitset of Examples 1-9 of bitset.cpp
BitsetSize == 8

\* longest initialiser string tried for the bitsets of Examples 3 and 8,
\* which the source initialises with strings shorter than the bitset
MaxStrLen == 4

Bit == {0, 1}

Min(a, b) == IF a < b THEN a ELSE b

\* the strings of '0' and '1' of length n, as sequences of the digits
BitStrings(n) == [1..n -> Bit]

\* the strings of '0' and '1' of length 1..n
ShortBitStrings(n) == UNION {BitStrings(k) : k \in 1..n}

(***************************************************************************)
(* std::bitset<N>: a function from bit position 0..N-1 to 0 or 1           *)
(***************************************************************************)

\* bitset(const std::string&): the last character of the string is bit 0;
\* at most N characters are used and the positions above them are zero
bitset(str) ==
  LET M == Min(Len(str), BitsetSize)
  IN  [i \in 0..(BitsetSize - 1) |-> IF i < M THEN str[M - i] ELSE 0]

\* operator<< / to_string(): N characters, bit N-1 first, bit 0 last
to_string(b) == [k \in 1..BitsetSize |-> b[BitsetSize - k]]

\* set(pos): bit pos becomes 1
set(b, pos) == [b EXCEPT ![pos] = 1]

\* reset(pos) counting pos from the most significant end
reset_msb(b, pos) == [b EXCEPT ![BitsetSize - 1 - pos] = 0]

\* reset(pos): bit pos becomes 0
reset(b, pos) == [b EXCEPT ![pos] = 0]

\* flip(pos): bit pos is toggled
flip(b, pos) == [b EXCEPT ![pos] = 1 - b[pos]]

\* flip(): every bit is toggled
flip_all(b) == [i \in DOMAIN b |-> 1 - b[i]]

\* count(): the number of bits that are 1
count(b) == Cardinality({i \in DOMAIN b : b[i] = 1})

\* test(pos) counting pos from the most significant end
test_msb(b, pos) == b[Cardinality(DOMAIN b) - 1 - pos]

\* test(pos): the value of bit pos, printed as 0 or 1
test(b, pos) == b[pos]

\* any(): some bit is 1
any(b) == \E i \in DOMAIN b : b[i] = 1

\* the inclusive or in the place of the exclusive one
operator_xor_inclusive(a, b) == [i \in DOMAIN a |-> IF a[i] = 1 \/ b[i] = 1 THEN 1 ELSE 0]

\* an and that passes its left operand through
operator_and_left(a, b) == a

\* operator&, operator|, operator^
operator_and(a, b) == [i \in DOMAIN a |-> IF a[i] = 1 /\ b[i] = 1 THEN 1 ELSE 0]
operator_or(a, b) == [i \in DOMAIN a |-> IF a[i] = 1 \/ b[i] = 1 THEN 1 ELSE 0]
operator_xor(a, b) == [i \in DOMAIN a |-> IF a[i] # b[i] THEN 1 ELSE 0]

\* a shift that fills the low end with ones
operator_shl_ones(b, n) == [i \in DOMAIN b |-> IF i >= n THEN b[i - n] ELSE 1]

\* operator<<(n): bit i takes the value of bit i-n; bits shifted past N-1 are lost
operator_shl(b, n) == [i \in DOMAIN b |-> IF i >= n THEN b[i - n] ELSE 0]

\* to_ulong(): the bitset read as an unsigned number
RECURSIVE ulong_from(_, _)
ulong_from(b, i) == IF i < 0 THEN 0 ELSE b[i] + 2 * ulong_from(b, i - 1)
to_ulong(b) == LET rev == [i \in DOMAIN b |-> b[BitsetSize - 1 - i]]
               IN  ulong_from(rev, BitsetSize - 1)

(***************************************************************************)
(* Program steps                                                           *)
(***************************************************************************)

\* one line written to std::cout: the text before the value, and the value
Line(label, val) == [label |-> label, val |-> val]

\* std::cout << label << val << '\n'
cout(label, val) == Append(out, Line(label, val))

\* the locals m with one more local variable declared
DeclareIn(m, name, val) == (name :> val) @@ m

\* the declaration of a local variable
Declare(name, val) == DeclareIn(mem, name, val)

\* statement of example p at line from, continuing at line to
Step(p, from, to, m, o) ==
  /\ prog = p
  /\ pc = from
  /\ pc' = to
  /\ mem' = m
  /\ out' = o
  /\ UNCHANGED <<prog, input>>

NoLocals == <<>>

(***************************************************************************)
(* bitset.cpp Example 1: Basic Operations with <bitset>                    *)
(***************************************************************************)

B1 == "bitset.Example1"

B1_Literal == <<1, 0, 1, 0, 1, 0, 1, 0>>

B1_Init ==
  /\ prog = B1
  /\ input \in {<<s>> : s \in BitStrings(BitsetSize)}
  /\ pc = "L137"
  /\ mem = NoLocals
  /\ out = <<>>

B1_L137 == Step(B1, "L137", "L139", Declare("bits", bitset(input[1])), out)
B1_L139 == Step(B1, "L139", "L141", mem, cout("Initial bitset: ", to_string(mem.bits)))
B1_L141 == Step(B1, "L141", "L142", [mem EXCEPT !.bits = set(mem.bits, 0)], out)
B1_L142 == Step(B1, "L142", "L144", mem, cout("After setting 0th bit: ", to_string(mem.bits)))
B1_L144 == Step(B1, "L144", "L145", [mem EXCEPT !.bits = reset(mem.bits, 1)], out)
B1_L145 == Step(B1, "L145", "L147", mem, cout("After resetting 1st bit: ", to_string(mem.bits)))
B1_L147 == Step(B1, "L147", "L148", [mem EXCEPT !.bits = flip_all(mem.bits)], out)
B1_L148 == Step(B1, "L148", "L150", mem, cout("After flipping all bits: ", to_string(mem.bits)))
B1_L150 == Step(B1, "L150", "L151", mem, cout("Number of set bits: ", <<count(mem.bits)>>))
B1_L151 == Step(B1, "L151", "done", mem, cout("Bit at position 2: ", <<test(mem.bits, 2)>>))

(***************************************************************************)
(* bitset.cpp Example 2: Modifying Bits                                    *)
(***************************************************************************)

B2 == "bitset.Example2"

B2_Literal == <<1, 0, 1, 0, 1, 0, 1, 0>>

B2_Init ==
  /\ prog = B2
  /\ input \in {<<s>> : s \in BitStrings(BitsetSize)}
  /\ pc = "L175"
  /\ mem = NoLocals
  /\ out = <<>>

B2_L175 == Step(B2, "L175", "L177", Declare("b", bitset(input[1])), out)
B2_L177 == Step(B2, "L177", "L178", [mem EXCEPT !.b = set(mem.b, 0)], out)
B2_L178 == Step(B2, "L178", "L179", [mem EXCEPT !.b = reset(mem.b, 1)], out)
B2_L179 == Step(B2, "L179", "L181", [mem EXCEPT !.b = flip(mem.b, 2)], out)
B2_L181 == Step(B2, "L181", "done", mem, cout("After modifications: ", to_string(mem.b)))

(***************************************************************************)
(* bitset.cpp Example 3: Bitwise Operations                                *)
(***************************************************************************)

B3 == "bitset.Example3"

B3_Literal == << <<1, 1, 0, 0>>, <<1, 0, 1, 0>> >>

B3_Init ==
  /\ prog = B3
  /\ input \in ShortBitStrings(MaxStrLen) \X ShortBitStrings(MaxStrLen)
  /\ pc = "L200"
  /\ mem = NoLocals
  /\ out = <<>>

B3_L200 == Step(B3, "L200", "L201", Declare("b1", bitset(input[1])), out)
B3_L201 == Step(B3, "L201", "L203", Declare("b2", bitset(input[2])), out)
B3_L203 == Step(B3, "L203", "L204", mem, cout("b1 & b2: ", to_string(operator_and(mem.b1, mem.b2))))
B3_L204 == Step(B3, "L204", "L205", mem, cout("b1 | b2: ", to_string(operator_or(mem.b1, mem.b2))))
B3_L205 == Step(B3, "L205", "done", mem, cout("b1 ^ b2: ", to_string(operator_xor(mem.b1, mem.b2))))

(***************************************************************************)
(* bitset.cpp Example 4: Counting Bits and Checking Specific Bits          *)
(***************************************************************************)

B4 == "bitset.Example4"

B4_Literal == <<1, 1, 0, 1, 0, 0, 1, 0>>

B4_Init ==
  /\ prog = B4
  /\ input \in {<<s>> : s \in BitStrings(BitsetSize)}
  /\ pc = "L227"
  /\ mem = NoLocals
  /\ out = <<>>

B4_L227 == Step(B4, "L227", "L229", Declare("b", bitset(input[1])), out)
B4_L229 == Step(B4, "L229", "L230", mem, cout("Number of set bits: ", <<count(mem.b)>>))
B4_L230 == Step(B4, "L230", "done", mem, cout("Is bit 3 set? ", <<test(mem.b, 3)>>))

(***************************************************************************)
(* bitset.cpp Example 8: Using std::bitset for Binary Addition             *)
(***************************************************************************)

B8 == "bitset.Example8"

B8_Literal == << <<1, 1, 0, 1>>, <<1, 0, 1, 1>> >>

B8_Init ==
  /\ prog = B8
  /\ input \in ShortBitStrings(MaxStrLen) \X ShortBitStrings(MaxStrLen)
  /\ pc = "L335"
  /\ mem = NoLocals
  /\ out = <<>>

\* every pair of 8-character strings: every pair of values of std::bitset<8>
B8_AllInputs ==
  /\ prog = B8
  /\ input \in BitStrings(BitsetSize) \X BitStrings(BitsetSize)
  /\ pc = "L335"
  /\ mem = NoLocals
  /\ out = <<>>

\* how many times the body of the while loop has been entered
B8_Iterations == IF "iterations" \in DOMAIN mem THEN mem.iterations ELSE 0

B8_L335 == Step(B8, "L335", "L336", Declare("b1", bitset(input[1])), out)
B8_L336 == Step(B8, "L336", "L339", Declare("b2", bitset(input[2])), out)
B8_L339 == Step(B8, "L339", "L340", Declare("result", operator_xor(mem.b1, mem.b2)), out)
B8_L340 == Step(B8, "L340", "L342",
                Declare("carry", operator_shl(operator_and(mem.b1, mem.b2), 1)), out)
\* while (carry.any())
B8_L342 == Step(B8, "L342", IF any(mem.carry) THEN "L343" ELSE "L348", mem, out)
\* the loop body is entered; iterations counts the entries
B8_L343 == Step(B8, "L343", "L344",
                DeclareIn(Declare("temp", mem.result), "iterations", B8_Iterations + 1), out)
B8_L344 == Step(B8, "L344", "L345",
                [mem EXCEPT !.result = operator_xor(mem.result, mem.carry)], out)
B8_L345 == Step(B8, "L345", "L342",
                [mem EXCEPT !.carry = operator_shl(operator_and(mem.temp, mem.carry), 1)], out)
B8_L348 == Step(B8, "L348", "done", mem, cout("Binary addition result: ", to_string(mem.result)))

NextExample8 ==
  \/ B8_L335 \/ B8_L336 \/ B8_L339 \/ B8_L340 \/ B8_L342
  \/ B8_L343 \/ B8_L344 \/ B8_L345 \/ B8_L348

SpecExample8 == B8_AllInputs /\ [][NextExample8]_vars

(***************************************************************************)
(* bitset.cpp Example 9: Checking Palindromic Bits                         *)
(***************************************************************************)

RECURSIVE isPalindrome_early(_, _, _)
\* the loop of isPalindrome stopping one pair before the middle
isPalindrome_early(bits, n, i) ==
  IF ~(i < (n \div 2) - 1) THEN 1
  ELSE IF bits[i] # bits[n - i - 1] THEN 0
  ELSE isPalindrome_early(bits, n, i + 1)

RECURSIVE isPalindrome_from(_, _, _)
\* the loop of isPalindrome from index i on:
\* for (; i < n / 2; ++i) if (bits[i] != bits[n - i - 1]) return false;
\* return true; the bool is printed as 0 or 1
isPalindrome_from(bits, n, i) ==
  IF ~(i < n \div 2) THEN 1
  ELSE IF bits[i] # bits[n - i - 1] THEN 0
  ELSE isPalindrome_from(bits, n, i + 1)

\* size(): the number of bits of the bitset
size(b) == Cardinality(DOMAIN b)

\* bool isPalindrome(const std::bitset<8>& bits)
isPalindrome(bits) == isPalindrome_from(bits, size(bits), 0)

B9 == "bitset.Example9"

B9_Literal == << <<1, 0, 0, 0, 0, 0, 0, 1>>, <<1, 1, 0, 0, 1, 0, 0, 1>> >>

\* the pairs of strings Example 9 is run on: each literal with every 8-bit
\* string in the place of the other
B9_Inputs ==
  (BitStrings(BitsetSize) \X {B9_Literal[2]}) \cup ({B9_Literal[1]} \X BitStrings(BitsetSize))

B9_Init ==
  /\ prog = B9
  /\ input \in B9_Inputs
  /\ pc = "L377"
  /\ mem = NoLocals
  /\ out = <<>>

B9_L377 == Step(B9, "L377", "L378", Declare("b1", bitset(input[1])), out)
B9_L378 == Step(B9, "L378", "L380", Declare("b2", bitset(input[2])), out)
B9_L380 == Step(B9, "L380", "L381", mem, cout("b1 is palindrome: ", <<isPalindrome(mem.b1)>>))
B9_L381 == Step(B9, "L381", "done", mem, cout("b2 is palindrome: ", <<isPalindrome(mem.b2)>>))

(***************************************************************************)
(* bitset.cpp Example 10: Representing Permissions Using std::bitset       *)
(***************************************************************************)

\* std::bitset<3>: the width of the permission bitsets
PermissionBits == 3

\* std::bitset<n>(const char*): the last character of the string is bit 0
bitset_of_width(n, str) ==
  LET M == Min(Len(str), n)
  IN  [i \in 0..(n - 1) |-> IF i < M THEN str[M - i] ELSE 0]

\* operator<< of a std::bitset<n>: n characters, bit n-1 first, bit 0 last
to_string_of_width(n, b) == [k \in 1..n |-> b[n - k]]

B10 == "bitset.Example10"

B10_Literal == << <<1, 0, 1>>, <<1, 1, 0>> >>

B10_Init ==
  /\ prog = B10
  /\ input \in BitStrings(PermissionBits) \X BitStrings(PermissionBits)
  /\ pc = "L402"
  /\ mem = NoLocals
  /\ out = <<>>

B10_L402 == Step(B10, "L402", "L403",
                 Declare("userPerms", bitset_of_width(PermissionBits, input[1])), out)
B10_L403 == Step(B10, "L403", "L405",
                 Declare("groupPerms", bitset_of_width(PermissionBits, input[2])), out)
B10_L405 == Step(B10, "L405", "L406", mem,
                 cout("User Permissions: ", to_string_of_width(PermissionBits, mem.userPerms)))
B10_L406 == Step(B10, "L406", "L409", mem,
                 cout("Group Permissions: ", to_string_of_width(PermissionBits, mem.groupPerms)))
B10_L409 == Step(B10, "L409", "L410", mem,
                 cout("User has write permission: ", <<test(mem.userPerms, 1)>>))
B10_L410 == Step(B10, "L410", "done", mem,
                 cout("Group has execute permission: ", <<test(mem.groupPerms, 0)>>))

(***************************************************************************)
(* The examples of bitset.cpp                                              *)
(***************************************************************************)

InitBitset == B1_Init \/ B2_Init \/ B3_Init \/ B4_Init \/ B8_Init \/ B9_Init \/ B10_Init

NextBitset ==
  \/ B1_L137 \/ B1_L139 \/ B1_L141 \/ B1_L142 \/ B1_L144
  \/ B1_L145 \/ B1_L147 \/ B1_L148 \/ B1_L150 \/ B1_L151
  \/ B2_L175 \/ B2_L177 \/ B2_L178 \/ B2_L179 \/ B2_L181
  \/ B3_L200 \/ B3_L201 \/ B3_L203 \/ B3_L204 \/ B3_L205
  \/ B4_L227 \/ B4_L229 \/ B4_L230
  \/ B8_L335 \/ B8_L336 \/ B8_L339 \/ B8_L340 \/ B8_L342
  \/ B8_L343 \/ B8_L344 \/ B8_L345 \/ B8_L348
  \/ B9_L377 \/ B9_L378 \/ B9_L380 \/ B9_L381
  \/ B10_L402 \/ B10_L403 \/ B10_L405 \/ B10_L406 \/ B10_L409 \/ B10_L410

SpecBitset == InitBitset /\ [][NextBitset]_vars

(***************************************************************************)
(* <algorithm>: a std::vector<int> is a sequence, an iterator the number   *)
(* of elements before it                                                   *)
(***************************************************************************)

\* operator<, the order std::sort, std::nth_element and the set operations use
less == [a \in Int, b \in Int |-> a < b]

RECURSIVE Orderings(_)
\* every order in which the members of S can be listed
Orderings(S) ==
  IF S = {} THEN {<<>>}
  ELSE UNION {{<<x>> \o p : p \in Orderings(S \ {x})} : x \in S}

\* every rearrangement of the elements of v
Rearrangements(v) == {[i \in 1..Len(v) |-> v[p[i]]] : p \in Orderings(1..Len(v))}

\* std::sort on [first, last) ending one element early
sort_short(v, first, last, comp) ==
  LET n == IF last > first THEN last - first - 1 ELSE 0
      Insert(t, e) ==
        LET k == Cardinality({i \in 1..Len(t) : ~comp[e, t[i]]})
        IN  SubSeq(t, 1, k) \o <<e>> \o SubSeq(t, k + 1, Len(t))
      f[i \in 0..n] == IF i = 0 THEN <<>> ELSE Insert(f[i - 1], v[first + i])
  IN  SubSeq(v, 1, first) \o f[n] \o SubSeq(v, first + n + 1, Len(v))

\* std::sort(first, last, comp): the elements of [first, last) in the order of
\* comp; the elements outside the range stay where they are
sort(v, first, last, comp) ==
  LET n == last - first
      Insert(t, e) ==
        LET k == Cardinality({i \in 1..Len(t) : ~comp[e, t[i]]})
        IN  SubSeq(t, 1, k) \o <<e>> \o SubSeq(t, k + 1, Len(t))
      f[i \in 0..n] == IF i = 0 THEN <<>> ELSE Insert(f[i - 1], v[first + i])
  IN  SubSeq(v, 1, first) \o f[n] \o SubSeq(v, last + 1, Len(v))

\* std::partition(begin, end, pred): some rearrangement with every element
\* satisfying pred before every element that does not; the relative order is
\* unspecified; it is the position of the first element not satisfying pred
partition(v, pred) ==
  LET k == Cardinality({i \in 1..Len(v) : pred[v[i]]})
  IN  {[nums |-> r, it |-> k] :
         r \in {q \in Rearrangements(v) :
                  /\ \A i \in 1..k : pred[q[i]]
                  /\ \A i \in (k + 1)..Len(v) : ~pred[q[i]]}}

\* std::nth_element(begin, begin + nth, end): some rearrangement in which no
\* element before position nth is greater than the element there and no
\* element after it is smaller; the order on either side is unspecified
nth_element(v, nth) ==
  {r \in Rearrangements(v) :
     /\ \A i \in 1..nth : ~less[r[nth + 1], r[i]]
     /\ \A j \in (nth + 2)..Len(v) : ~less[r[j], r[nth + 1]]}

RECURSIVE merge_from(_, _, _, _)
\* std::merge: an element present in both ranges is copied from both
merge_from(a, b, i, j) ==
  IF i > Len(a) THEN SubSeq(b, j, Len(b))
  ELSE IF j > Len(b) THEN SubSeq(a, i, Len(a))
  ELSE IF less[b[j], a[i]] THEN <<b[j]>> \o merge_from(a, b, i, j + 1)
  ELSE <<a[i]>> \o merge_from(a, b, i + 1, j)

RECURSIVE set_union_from(_, _, _, _)
\* std::set_union from positions i of a and j of b on: the smaller head is
\* copied; of two equivalent heads the one of a is copied and both are passed
set_union_from(a, b, i, j) ==
  IF i > Len(a) THEN SubSeq(b, j, Len(b))
  ELSE IF j > Len(b) THEN SubSeq(a, i, Len(a))
  ELSE IF less[b[j], a[i]] THEN <<b[j]>> \o set_union_from(a, b, i, j + 1)
  ELSE IF less[a[i], b[j]] THEN <<a[i]>> \o set_union_from(a, b, i + 1, j)
  ELSE <<a[i]>> \o set_union_from(a, b, i + 1, j + 1)

\* std::set_union(first1, last1, first2, last2, d_first): the elements written
set_union(a, b) == set_union_from(a, b, 1, 1)

\* std::vector<int> v(n): n value-initialised elements
vector(n) == [i \in 1..n |-> 0]

\* the elements w written through an output iterator at the start of buf
write(buf, w) == [i \in 1..Len(buf) |-> IF i <= Len(w) THEN w[i] ELSE buf[i]]

\* resize(n): the first n elements, value-initialised ones added when n is larger
resize(v, n) == [i \in 1..n |-> IF i <= Len(v) THEN v[i] ELSE 0]

\* std::reverse on the elements from position first (1-based) to the end
reverse_from(v, first) ==
  [i \in 1..Len(v) |-> IF i < first THEN v[i] ELSE v[Len(v) + first - i]]

\* std::next_permutation without the reversal of the tail
next_permutation_noreverse(v) ==
  LET asc == {i \in 1..(Len(v) - 1) : less[v[i], v[i + 1]]}
  IN  IF asc = {} THEN [nums |-> reverse_from(v, 1), ret |-> FALSE]
      ELSE LET i == CHOOSE k \in asc : \A m \in asc : m <= k
               gt == {k \in (i + 1)..Len(v) : less[v[i], v[k]]}
               j == CHOOSE k \in gt : \A m \in gt : m <= k
           IN  [nums |-> [v EXCEPT ![i] = v[j], ![j] = v[i]], ret |-> TRUE]

\* std::next_permutation(begin, end): the last position i whose element is
\* less than its successor is swapped with the last element greater than it
\* and the tail after i is reversed; when there is no such i the range is
\* reversed to the first permutation and false is returned
next_permutation(v) ==
  LET asc == {i \in 1..(Len(v) - 1) : less[v[i], v[i + 1]]}
  IN  IF asc = {} THEN [nums |-> reverse_from(v, 1), ret |-> FALSE]
      ELSE LET i == CHOOSE k \in asc : \A m \in asc : m <= k
               gt == {k \in (i + 1)..Len(v) : less[v[i], v[k]]}
               j == CHOOSE k \in gt : \A m \in gt : m <= k
               swapped == [v EXCEPT ![i] = v[j], ![j] = v[i]]
           IN  [nums |-> reverse_from(swapped, i + 1), ret |-> TRUE]

\* the strictly increasing sequence of the members of S
RECURSIVE SortedSeq(_)
SortedSeq(S) ==
  IF S = {} THEN <<>>
  ELSE LET m == CHOOSE x \in S : \A y \in S : x <= y
       IN  <<m>> \o SortedSeq(S \ {m})

(***************************************************************************)
(* algorithm.cpp Example 2: std::sort with Custom Comparator               *)
(***************************************************************************)

A2 == "algorithm.Example2"

A2_Literal == <<10, 20, 5, 15, 30>>

\* the vectors Example 2 is run on: the values of the literal in any
\* arrangement, repetitions included
A2_Inputs == [1..Len(A2_Literal) -> {A2_Literal[i] : i \in 1..Len(A2_Literal)}]

\* a comparator that orders ascending
A2_comp_ascending == [a \in Int, b \in Int |-> a < b]

\* [](int a, int b) { return a > b; }
A2_comp == [a \in Int, b \in Int |-> a > b]

A2_Init ==
  /\ prog = A2
  /\ input \in {<<v>> : v \in A2_Inputs}
  /\ pc = "L165"
  /\ mem = NoLocals
  /\ out = <<>>

A2_L165 == Step(A2, "L165", "L169", Declare("nums", input[1]), out)
A2_L169 == Step(A2, "L169", "L174",
                [mem EXCEPT !.nums = sort(mem.nums, 0, Len(mem.nums), A2_comp)], out)
A2_L174 == Step(A2, "L174", "done", mem, cout("Sorted in descending order: ", mem.nums))

(***************************************************************************)
(* algorithm.cpp Example 3: std::unique to Remove Consecutive Duplicates   *)
(***************************************************************************)

\* longest vector of arbitrary arrangement Example 3 is run on
MaxUniqueLen == 4

RECURSIVE unique_all(_, _, _)
\* std::unique dropping every element equal to any element kept before it
unique_all(v, kept, i) ==
  IF i > Len(v) THEN kept
  ELSE IF \E k \in 1..Len(kept) : kept[k] = v[i] THEN unique_all(v, kept, i + 1)
  ELSE unique_all(v, Append(kept, v[i]), i + 1)

RECURSIVE unique_from(_, _, _)
\* the loop of std::unique from position i on, kept being the elements kept
\* so far: an element equal to the last one kept is dropped, any other is
\* moved behind it
unique_from(v, kept, i) ==
  IF i > Len(v) THEN kept
  ELSE IF kept[Len(kept)] = v[i] THEN unique_from(v, kept, i + 1)
  ELSE unique_from(v, Append(kept, v[i]), i + 1)

\* std::unique(begin, end): the kept elements at the front of the vector, the
\* positions behind them as they were, and the position behind the last kept one
unique(v) ==
  LET kept == IF v = <<>> THEN <<>> ELSE unique_from(v, <<v[1]>>, 2)
  IN  [nums |-> write(v, kept), it |-> Len(kept)]

\* erase(first, end()): the elements before position first
erase_to_end(v, first) == SubSeq(v, 1, first)

A3 == "algorithm.Example3"

A3_Literal == <<1, 1, 2, 2, 3, 4, 4, 5>>

\* the non-decreasing vectors of n elements over lo..5
RECURSIVE NonDecreasing(_, _)
NonDecreasing(n, lo) ==
  IF n = 0 THEN {<<>>}
  ELSE UNION {{<<x>> \o t : t \in NonDecreasing(n - 1, x)} : x \in lo..5}

\* the vectors Example 3 is run on: the non-decreasing vectors as long as the
\* literal over its values, and every shorter vector over three of them
A3_Inputs ==
  NonDecreasing(Len(A3_Literal), 1)
    \cup UNION {[1..n -> {1, 2, 3}] : n \in 0..MaxUniqueLen}

A3_Init ==
  /\ prog = A3
  /\ input \in {<<v>> : v \in A3_Inputs}
  /\ pc = "L195"
  /\ mem = NoLocals
  /\ out = <<>>

A3_L195 == Step(A3, "L195", "L198", Declare("nums", input[1]), out)
A3_L198 ==
  LET r == unique(mem.nums)
  IN  Step(A3, "L198", "L201", DeclareIn([mem EXCEPT !.nums = r.nums], "it", r.it), out)
A3_L201 == Step(A3, "L201", "L204", [mem EXCEPT !.nums = erase_to_end(mem.nums, mem.it)], out)
A3_L204 == Step(A3, "L204", "done", mem, cout("After removing duplicates: ", mem.nums))

(***************************************************************************)
(* algorithm.cpp Example 4: std::partition                                 *)
(***************************************************************************)

A4 == "algorithm.Example4"

A4_Literal == <<1, 2, 3, 4, 5, 6>>

\* [](int n) { return n % 2 == 0; }
A4_pred == [n \in Int |-> n % 2 = 0]

A4_Init ==
  /\ prog = A4
  /\ input = <<A4_Literal>>
  /\ pc = "L223"
  /\ mem = NoLocals
  /\ out = <<>>

A4_L223 == Step(A4, "L223", "L226", Declare("nums", input[1]), out)
A4_L226 ==
  /\ prog = A4
  /\ pc = "L226"
  /\ \E r \in partition(mem.nums, A4_pred) :
       Step(A4, "L226", "L231",
            DeclareIn([mem EXCEPT !.nums = r.nums], "partition_point", r.it), out)
A4_L231 == Step(A4, "L231", "L234",
                [mem EXCEPT !.nums = sort(mem.nums, 0, mem.partition_point, less)], out)
A4_L234 == Step(A4, "L234", "L237",
                [mem EXCEPT !.nums = sort(mem.nums, mem.partition_point, Len(mem.nums), less)],
                out)
A4_L237 == Step(A4, "L237", "done", mem, cout("Partitioned (evens first): ", mem.nums))

(***************************************************************************)
(* algorithm.cpp Example 10: std::nth_element                              *)
(***************************************************************************)

A10 == "algorithm.Example10"

A10_Literal == <<3, 1, 4, 1, 5, 9, 2>>

A10_Init ==
  /\ prog = A10
  /\ input = <<A10_Literal>>
  /\ pc = "L391"
  /\ mem = NoLocals
  /\ out = <<>>

A10_L391 == Step(A10, "L391", "L394", Declare("nums", input[1]), out)
A10_L394 ==
  /\ prog = A10
  /\ pc = "L394"
  /\ \E r \in nth_element(mem.nums, 2) :
       Step(A10, "L394", "L397", [mem EXCEPT !.nums = r], out)
A10_L397 == Step(A10, "L397", "done", mem,
                 cout("After nth_element (3rd smallest): ", mem.nums))

(***************************************************************************)
(* algorithm.cpp Example 11: std::set_union                                *)
(***************************************************************************)

A11 == "algorithm.Example11"

A11_Literal == << <<1, 3, 5, 7>>, <<3, 5, 8, 9>> >>

\* the sorted ranges Example 11 is run on: every set of values of the literals
A11_Inputs == {SortedSeq(S) : S \in SUBSET {1, 3, 5, 7, 8, 9}}

A11_Init ==
  /\ prog = A11
  /\ input \in A11_Inputs \X A11_Inputs
  /\ pc = "L416"
  /\ mem = NoLocals
  /\ out = <<>>

A11_L416 == Step(A11, "L416", "L417", Declare("set1", input[1]), out)
A11_L417 == Step(A11, "L417", "L418", Declare("set2", input[2]), out)
A11_L418 == Step(A11, "L418", "L421",
                 Declare("result", vector(Len(mem.set1) + Len(mem.set2))), out)
A11_L421 ==
  LET w == set_union(mem.set1, mem.set2)
  IN  Step(A11, "L421", "L422",
           DeclareIn([mem EXCEPT !.result = write(mem.result, w)], "it", Len(w)), out)
A11_L422 == Step(A11, "L422", "L425",
                 [mem EXCEPT !.result = resize(mem.result, mem.it)], out)
A11_L425 == Step(A11, "L425", "done", mem, cout("Union: ", mem.result))

(***************************************************************************)
(* algorithm.cpp Example 19: std::next_permutation                         *)
(***************************************************************************)

A19 == "algorithm.Example19"

A19_Literal == <<1, 2, 3>>

\* the vectors Example 19 is run on: the values of the literal in any
\* arrangement, repetitions included
A19_Inputs == [1..Len(A19_Literal) -> {A19_Literal[i] : i \in 1..Len(A19_Literal)}]

A19_Init ==
  /\ prog = A19
  /\ input \in {<<v>> : v \in A19_Inputs}
  /\ pc = "L614"
  /\ mem = NoLocals
  /\ out = <<>>

A19_L614 == Step(A19, "L614", "L618", Declare("nums", input[1]), out)
\* the body of the do-while loop: the vector on a line of its own
A19_L618 == Step(A19, "L618", "L622", mem, cout("", mem.nums))
\* } while (std::next_permutation(nums.begin(), nums.end()));
A19_L622 ==
  LET r == next_permutation(mem.nums)
  IN  Step(A19, "L622", IF r.ret THEN "L618" ELSE "done",
           [mem EXCEPT !.nums = r.nums], out)

(***************************************************************************)
(* The examples of algorithm.cpp                                           *)
(***************************************************************************)

InitAlgorithm == A2_Init \/ A3_Init \/ A4_Init \/ A10_Init \/ A11_Init

NextAlgorithm ==
  \/ A2_L165 \/ A2_L169 \/ A2_L174
  \/ A3_L195 \/ A3_L198 \/ A3_L201 \/ A3_L204
  \/ A4_L223 \/ A4_L226 \/ A4_L231 \/ A4_L234 \/ A4_L237
  \/ A10_L391 \/ A10_L394 \/ A10_L397
  \/ A11_L416 \/ A11_L417 \/ A11_L418 \/ A11_L421 \/ A11_L422 \/ A11_L425

SpecAlgorithm == InitAlgorithm /\ [][NextAlgorithm]_vars

\* Example 19 and its loop
NextExample19 == A19_L614 \/ A19_L618 \/ A19_L622

\* a sequential program that has a next statement executes it
SpecExample19 == A19_Init /\ [][NextExample19]_vars /\ WF_vars(NextExample19)

(***************************************************************************)
(* algorithm.cpp Example 23: std::set_difference                           *)
(***************************************************************************)

RECURSIVE set_difference_keep(_, _, _, _)
\* std::set_difference passing only the head of b when the heads are equivalent
set_difference_keep(a, b, i, j) ==
  IF i > Len(a) THEN <<>>
  ELSE IF j > Len(b) THEN SubSeq(a, i, Len(a))
  ELSE IF less[a[i], b[j]] THEN <<a[i]>> \o set_difference_keep(a, b, i + 1, j)
  ELSE set_difference_keep(a, b, i, j + 1)

RECURSIVE set_difference_from(_, _, _, _)
\* std::set_difference from positions i of a and j of b on: a head of a that
\* is less than the head of b is copied; of two equivalent heads neither is
\* copied and both are passed; a smaller head of b is passed
set_difference_from(a, b, i, j) ==
  IF i > Len(a) THEN <<>>
  ELSE IF j > Len(b) THEN SubSeq(a, i, Len(a))
  ELSE IF less[a[i], b[j]] THEN <<a[i]>> \o set_difference_from(a, b, i + 1, j)
  ELSE IF less[b[j], a[i]] THEN set_difference_from(a, b, i, j + 1)
  ELSE set_difference_from(a, b, i + 1, j + 1)

\* std::set_difference(first1, last1, first2, last2, d_first): the elements written
set_difference(a, b) == set_difference_from(a, b, 1, 1)

\* the smaller of the two in the place of the larger
Max_smaller(a, b) == IF a < b THEN a ELSE b

\* std::max
Max(a, b) == IF a < b THEN b ELSE a

A23 == "algorithm.Example23"

A23_Literal == << <<1, 2, 3, 4, 5>>, <<3, 4, 5, 6, 7>> >>

\* the sorted ranges Example 23 is run on: every set of values of the literals
A23_Inputs == {SortedSeq(S) : S \in SUBSET {1, 2, 3, 4, 5, 6, 7}}

A23_Init ==
  /\ prog = A23
  /\ input \in A23_Inputs \X A23_Inputs
  /\ pc = "L722"
  /\ mem = NoLocals
  /\ out = <<>>

A23_L722 == Step(A23, "L722", "L723", Declare("set1", input[1]), out)
A23_L723 == Step(A23, "L723", "L724", Declare("set2", input[2]), out)
A23_L724 == Step(A23, "L724", "L727",
                 Declare("result", vector(Max(Len(mem.set1), Len(mem.set2)))), out)
A23_L727 ==
  LET w == set_difference(mem.set1, mem.set2)
  IN  Step(A23, "L727", "L731",
           DeclareIn([mem EXCEPT !.result = write(mem.result, w)], "it", Len(w)), out)
A23_L731 == Step(A23, "L731", "L734",
                 [mem EXCEPT !.result = resize(mem.result, mem.it)], out)
A23_L734 == Step(A23, "L734", "done", mem, cout("Difference: ", mem.result))

NextExample23 ==
  A23_L722 \/ A23_L723 \/ A23_L724 \/ A23_L727 \/ A23_L731 \/ A23_L734

SpecExample23 == A23_Init /\ [][NextExample23]_vars

(***************************************************************************)
(* The catalogue: the groupings of entries of algorithm.cpp and bitset.cpp *)
(* and the operation names heading the entries of each, in file order.     *)
(* An entry is the set of names its heading gives.                         *)
(***************************************************************************)

\* algorithm.cpp line 113, "Non-Modifying Sequence Operations"
FunctionList_NonModifying ==
  <<{"all_of"}, {"any_of"}, {"none_of"}, {"for_each"}, {"count"},
    {"count_if"}, {"mismatch"}, {"equal"}, {"find"}, {"find_if"},
    {"find_if_not"}, {"find_end"}, {"find_first_of"}, {"adjacent_find"},
    {"search"}, {"search_n"}>>

\* algorithm.cpp line 115, "Modifying Sequence Operations"
FunctionList_Modifying ==
  <<{"copy"}, {"copy_n"}, {"copy_if"}, {"copy_backward"}, {"move"},
    {"move_backward"}, {"fill"}, {"fill_n"}, {"transform"}, {"generate"},
    {"generate_n"}, {"remove"}, {"remove_if"}, {"remove_copy"},
    {"remove_copy_if"}, {"replace"}, {"replace_if"}, {"replace_copy"},
    {"replace_copy_if"}, {"swap"}, {"swap_ranges"}, {"iter_swap"},
    {"reverse"}, {"reverse_copy"}, {"rotate"}, {"rotate_copy"},
    {"random_shuffle"}, {"shuffle"}>>

\* algorithm.cpp line 117, "Sorting and Partitioning"
FunctionList_Sorting ==
  <<{"is_sorted"}, {"is_sorted_until"}, {"sort"}, {"partial_sort"},
    {"partial_sort_copy"}, {"stable_sort"}, {"nth_element"}, {"partition"},
    {"partition_point"}, {"is_partitioned"}, {"inplace_merge"}>>

\* algorithm.cpp line 119, "Binary Search"
FunctionList_BinarySearch ==
  <<{"lower_bound"}, {"upper_bound"}, {"binary_search"}, {"equal_range"}>>

\* algorithm.cpp line 121, "Heap Operations"
FunctionList_Heap ==
  <<{"is_heap"}, {"is_heap_until"}, {"make_heap"}, {"push_heap"},
    {"pop_heap"}, {"sort_heap"}>>

\* algorithm.cpp line 123, "Set Operations"
FunctionList_Set ==
  <<{"merge"}, {"includes"}, {"set_union"}, {"set_intersection"},
    {"set_difference"}, {"set_symmetric_difference"}>>

\* algorithm.cpp line 125, "Randomized Algorithms"
FunctionList_Randomized ==
  <<{"random_shuffle"}, {"shuffle"}, {"sample"}>>

\* algorithm.cpp lines 133-744, the headings "Example 1" to "Example 23"
AlgorithmExamples ==
  <<{"max_element", "min_element"}, {"sort"}, {"unique"}, {"partition"},
    {"transform"}, {"merge"}, {"binary_search"}, {"remove_if"}, {"rotate"},
    {"nth_element"}, {"set_union"}, {"find_if"}, {"reverse"}, {"accumulate"},
    {"equal_range"}, {"inplace_merge"}, {"inplace_merge"},
    {"minmax_element"}, {"next_permutation"}, {"adjacent_difference"},
    {"includes"}, {"set_intersection"}, {"set_difference"}>>

\* algorithm.cpp lines 748-937, the entries under "Non-modifying sequence operations"
NonModifyingExamples ==
  <<{"all_of"}, {"any_of"}, {"none_of"}, {"for_each"}, {"find"}, {"find_if"},
    {"count"}, {"count_if"}, {"mismatch"}>>

\* bitset.cpp lines 78-87, the rows of "Key <bitset> Features"
BitsetFeatures ==
  <<{".set()"}, {".reset()"}, {".flip()"}, {".count()"}, {".any()"},
    {".none()"}, {".size()"}, {".test(i)"}, {".to_ulong()"},
    {".to_string()"}>>

\* bitset.cpp lines 131-395, the headings "Example 1" to "Example 10"
BitsetExamples ==
  <<{"Basic Operations with <bitset>"}, {"Modifying Bits"},
    {"Bitwise Operations"}, {"Counting Bits and Checking Specific Bits"},
    {"Converting std::bitset to Other Formats"},
    {"Comparing Two std::bitset Instances"},
    {"Customizing Output with std::bitset"},
    {"Using std::bitset for Binary Addition"}, {"Checking Palindromic Bits"},
    {"Representing Permissions Using std::bitset"}>>

\* the groupings, each named by the file and the part of it that holds it
Groupings ==
  [ algorithm_FunctionList_NonModifying |-> FunctionList_NonModifying,
    algorithm_FunctionList_Modifying    |-> FunctionList_Modifying,
    algorithm_FunctionList_Sorting      |-> FunctionList_Sorting,
    algorithm_FunctionList_BinarySearch |-> FunctionList_BinarySearch,
    algorithm_FunctionList_Heap         |-> FunctionList_Heap,
    algorithm_FunctionList_Set          |-> FunctionList_Set,
    algorithm_FunctionList_Randomized   |-> FunctionList_Randomized,
    algorithm_Examples                  |-> AlgorithmExamples,
    algorithm_NonModifyingExamples      |-> NonModifyingExamples,
    bitset_Features                     |-> BitsetFeatures,
    bitset_Examples                     |-> BitsetExamples ]

\* the topics that have both a row of the function list and a section of
\* entries: the section, and the row that enumerates the topic's names
EnumeratedBy ==
  [ algorithm_NonModifyingExamples |-> "algorithm_FunctionList_NonModifying" ]

\* A reader goes through one grouping from its first entry to its last,
\* keeping the names that headed the entries read so far.
Catalogue_Init ==
  /\ prog \in DOMAIN Groupings
  /\ pc = "entry"
  /\ input = Groupings[prog]
  /\ mem = [next |-> 1, seen |-> {}]
  /\ out = <<>>

\* the entry the reader is at has been read
Catalogue_ReadEntry ==
  /\ prog \in DOMAIN Groupings
  /\ pc = "entry"
  /\ mem.next <= Len(input)
  /\ mem' = [next |-> mem.next + 1, seen |-> mem.seen \cup input[mem.next]]
  /\ UNCHANGED <<prog, pc, input, out>>

\* no entry is left in the grouping
Catalogue_EndOfGrouping ==
  /\ prog \in DOMAIN Groupings
  /\ pc = "entry"
  /\ mem.next > Len(input)
  /\ pc' = "done"
  /\ UNCHANGED <<prog, input, mem, out>>

NextCatalogue == Catalogue_ReadEntry \/ Catalogue_EndOfGrouping

SpecCatalogue == Catalogue_Init /\ [][NextCatalogue]_vars

(***************************************************************************)
(* The source files as the compiler reads them: a file is its lines, a     *)
(* line the sequence of its "/" and "*" characters, with "c" for a run of  *)
(* other characters and " " for white space between two of them            *)
(***************************************************************************)

\* the shapes of the lines of bitset.cpp and algorithm.cpp
LineShapes ==
  << <<"/", "/", "c">>,
     <<>>,
     <<"c">>,
     <<"*", "c">>,
     <<"/", "/", " ", "/", "/", "c">>,
     <<"*", "*", "c">>,
     <<"/", "/", "c", "/", "/", "c">>,
     <<"/", "*", "c", "*", "/">>,
     <<"*">>,
     <<"*", "*", "c", "*", "c">>,
     <<"/", "*", "*">>,
     <<"*", "c", "*", "/">>,
     <<"/", "/", "c", "*", "/">>,
     <<"/", "/", "c", "*", "c">>,
     <<"/", "*", "c">>,
     <<"c", "*", "/">>,
     <<"*", "*", "c", "*", "/">>,
     <<"*", "/">>,
     <<"*", "c", "/", "c">>,
     <<"/", "*">>,
     <<"/", "/", "c", "/", "/">>,
     <<"*", "*", "c", "*", "c", "/", "c">>,
     <<"/", "/", "c", "/", "c">> >>

\* bitset.cpp lines 1-445: the shape of each line, twenty lines a row
bitset_cpp ==
  << 11,  6,  6,  4,  6,  9,  6,  6,  9,  4,  4,  4,  9,  4,  4,  4,  9,  4,  4,  4,
      9,  4,  9,  4,  9,  4,  4,  4, 19,  4,  4,  4,  4,  9,  4,  4,  4,  4,  4,  4,
      4,  6, 18,  2, 11,  6,  4,  6,  2,  4,  4,  6,  6,  6,  2,  4,  4,  6,  6,  6,
      6,  6,  2,  4,  4,  6,  6,  6,  6,  6,  2, 17,  2, 11,  4,  4,  6,  6,  6,  6,
      6,  6,  6,  6,  6,  6,  6, 17,  2,  2, 11,  4,  6,  4,  6,  6,  6,  6,  4,  6,
     10, 10, 10, 10,  6,  4,  6, 10, 10, 10, 10,  6,  4,  6, 10, 10, 10,  6,  4,  6,
     10, 10, 22, 10, 10,  6, 17,  2, 21,  2, 21,  2,  1,  1,  2,  1,  7,  2,  1,  2,
      7,  1,  2,  7,  1,  2,  7,  1,  2,  1,  1,  2,  1,  1,  2, 11,  4,  3,  2,  3,
      3,  3,  3,  3,  3,  3, 12,  2, 13,  2,  1,  1,  2,  1,  1,  2,  7,  7,  7,  2,
      1,  2,  1,  1,  2, 11,  4,  3,  2,  3,  3, 12,  2, 13,  2,  1,  1,  2,  1,  1,
      1,  2,  7,  7,  7,  2,  1,  1,  2, 11,  4,  3,  2,  3,  3,  3,  3, 12,  2,  2,
     13,  2,  1,  1,  2,  1,  1,  2,  7,  7,  2,  1,  1,  2, 11,  4,  3,  2,  3,  3,
      3, 12,  2, 13,  2,  1,  1,  1,  2,  1,  1,  2,  5,  1,  1,  2,  5,  1,  1,  2,
      1,  1,  2, 11,  4,  3,  2,  3,  3,  3, 12,  2, 13,  2,  1,  1,  2,  1,  1,  1,
      1,  2,  7,  7,  2,  1,  1,  2, 11,  4,  3,  2,  3,  3,  3, 12,  2, 13,  2,  1,
      1,  2,  1,  1,  2,  5,  1,  1,  1,  2,  1,  1,  2, 11,  4,  3,  2,  3,  3,  3,
      3,  3,  3,  3,  3,  3, 12,  2, 13,  2,  1,  1,  2,  1,  7,  7,  2,  5,  7,  7,
      2,  1,  1,  1,  1,  1,  2,  1,  2,  1,  1,  2, 11,  4,  3,  2,  3,  3, 12,  2,
     13,  2,  1,  1,  2,  1,  1, 23,  1,  1,  1,  1,  1,  1,  2,  1,  7,  7,  2,  1,
      1,  2,  1,  1,  2, 11,  4,  3,  2,  3,  3,  3, 12,  2, 13,  2,  1,  1,  2,  1,
      5,  7,  7,  2,  1,  1,  2,  5,  1,  1,  2,  1,  1,  2, 11,  4,  3,  2,  3,  3,
      3,  3,  3, 12,  2,  2, 20,  4,  4,  4,  4,  4,  4,  9,  4,  4,  4,  4,  4,  4,
     18,  2,  2,  2,  2 >>

\* algorithm.cpp lines 1-986: the shape of each line, twenty lines a row
algorithm_cpp ==
  << 15,  4,  4,  9,  4,  4,  4,  9,  4,  4,  4,  9,  4,  4,  4,  4,  4,  9,  4,  9,
      4,  9,  4,  4,  4, 19,  4,  4,  9,  4,  4,  9,  4,  4,  4,  4,  4,  4,  4, 12,
      2,  2,  2, 15,  2,  3,  3,  3,  3,  2, 16,  2,  2, 15,  2,  3,  3,  3,  3,  3,
      3,  3,  3,  3,  3,  3,  3,  3,  3,  3,  3,  3,  3,  3,  3,  3,  3,  2, 16,  2,
     15,  2,  3,  3,  3,  3,  3,  3,  3,  3,  3,  3,  3,  3,  3,  3,  3,  3,  3,  3,
      3,  3,  3,  3,  3,  3,  2,  2, 16,  2, 15,  2,  3,  3,  3,  3,  3,  3,  3,  3,
      3,  3,  3,  3,  3,  3,  2, 16,  2,  8,  2,  2,  8,  2,  1,  1,  1,  2,  1,  1,
      2,  5,  1, 14,  2,  5,  1, 14,  2,  1,  1,  2,  2,  1,  1,  1,  2,  8,  2,  1,
      1,  1,  2,  1,  1,  2,  2,  5,  1,  7,  1,  2,  5,  1,  1,  1,  1,  1,  2,  1,
      1,  2,  1,  2,  1,  2,  2,  8,  2,  1,  1,  1,  2,  1,  1,  2,  5,  1,  2,  5,
      1,  2,  5,  1,  1,  1,  1,  1,  2,  1,  1,  2,  1,  1,  2,  8,  2,  1,  1,  1,
      2,  1,  1,  2,  5,  1,  7,  1,  2,  5,  1,  2,  5,  1,  2,  5,  1,  1,  1,  1,
      1,  2,  1,  1,  2,  1,  1,  2,  8,  2,  1,  1,  1,  2,  1,  1,  1,  2,  5,  1,
     14,  1,  2,  5,  1,  1,  1,  1,  1,  2,  1,  1,  2,  1,  1,  2,  8,  2,  1,  1,
      1,  2,  1,  1,  1,  1,  2,  5,  1,  2,  5,  1,  1,  1,  1,  1,  2,  1,  1,  2,
      1,  1,  2,  8,  2,  1,  1,  1,  2,  1,  1,  2,  5,  1,  1,  2,  1,  1,  2,  1,
      1,  2,  1,  1,  1,  2,  2,  8,  2,  1,  1,  1,  2,  1,  1,  2,  5,  1,  7,  1,
      2,  5,  1,  2,  5,  1,  1,  1,  1,  1,  2,  1,  1,  2,  1,  1,  2,  8,  2,  1,
      1,  1,  2,  1,  1,  2,  5,  1,  2,  5,  1,  1,  1,  1,  1,  2,  1,  1,  2,  1,
      1,  2,  2,  8,  2,  1,  1,  1,  2,  1,  1,  2,  5,  1,  2,  5,  1,  1,  1,  1,
      1,  2,  1,  1,  2,  1,  1,  2,  8,  2,  1,  1,  1,  2,  1,  1,  1,  1,  2,  5,
      1,  1,  2,  5,  1,  1,  1,  1,  1,  2,  1,  1,  2,  1,  2,  1,  2,  8,  2,  1,
      1,  1,  2,  1,  1,  2,  5,  1,  7,  1,  2,  1, 14,  1,  1,  1,  2,  1,  1,  2,
      1,  1,  2,  8,  2,  1,  1,  1,  2,  1,  1,  2,  5,  1,  2,  5,  1,  1,  1,  1,
      1,  2,  1,  1,  2,  1,  1,  2,  8,  2,  1,  1,  7,  1,  2,  1,  1,  2,  5,  1,
      2,  1,  2,  1,  1,  2,  1,  1,  2,  8,  2,  1,  1,  1,  2,  1,  1,  2,  5,  1,
      2,  1,  1, 14,  1,  1,  2,  1,  1,  2,  1,  1,  2,  8,  2,  1,  1,  1,  2,  1,
      1,  2,  5,  1,  2,  5,  1,  1,  1,  1,  1,  2,  1,  1,  2,  1,  1,  2,  8,  2,
      1,  1,  1,  2,  1,  1,  2,  5,  1,  2,  5,  1,  1,  1,  1,  1,  2,  1,  1,  2,
      1,  1,  2,  8,  2,  1,  1,  1,  2,  1,  1,  2,  5,  1,  2, 14, 14,  2,  1,  1,
      2,  1,  1,  1,  2,  2,  8,  2,  1,  1,  1,  2,  1,  1,  2,  5,  1,  1,  1,  1,
      1,  1,  2,  1,  1,  2,  1,  1,  1,  1,  1,  1,  1,  2,  2,  2,  8,  2,  1,  1,
      1,  2,  1,  1,  1,  2,  5,  1,  2,  5,  1,  1,  1,  1,  1,  2,  1,  1,  2,  1,
      1,  2,  8,  2,  1,  1,  1,  2,  1,  1,  1,  2,  5,  1,  2,  1,  2,  1,  1,  2,
      1,  1,  2,  8,  2,  1,  1,  1,  2,  1,  1,  1,  1,  2,  5,  1,  2,  5,  1,  2,
      5,  1,  1,  1,  1,  1,  2,  1,  1,  2,  1,  1,  2,  8,  2,  1,  1,  1,  2,  1,
      2,  1,  1,  1,  2,  5,  1,  2,  5,  2,  1,  2,  5,  1,  1,  1,  1,  1,  2,  1,
      1,  2,  1,  1,  2,  2,  2,  8,  2,  2,  1,  2,  1,  1,  1,  2,  1,  1,  2,  5,
      1,  2,  1,  2,  1,  1,  2,  1,  1,  2,  1,  2,  1,  1,  1,  2,  1,  1,  2,  5,
      1,  2,  1,  2,  1,  1,  2,  1,  1,  2,  1,  2,  1,  1,  1,  2,  1,  1,  2,  5,
      1,  2,  1,  2,  1,  1,  2,  1,  1,  2,  1,  2,  1,  1,  1,  2,  1,  1,  2,  5,
      1,  1,  2,  1,  1,  2,  1,  1,  2,  1,  2,  1,  1,  1,  2,  1,  1,  2,  5,  1,
      1,  1,  1,  1,  1,  2,  1,  1,  2,  1,  1,  2,  2,  1,  2,  1,  1,  1,  2,  1,
      1,  2,  5,  1,  1, 14,  1,  1,  1,  2,  1,  1,  2,  1,  1,  2,  1,  2,  1,  1,
      1,  2,  1,  1,  2,  5,  1,  1,  2,  1,  1,  2,  1,  1,  2,  1,  2,  1,  1,  1,
      2,  1,  1,  2,  5,  1,  1,  2,  1,  1,  2,  1,  1,  2,  1,  2,  1,  1,  1,  2,
      1,  1,  1,  2,  5,  1,  1,  1,  1,  1,  1,  2,  1,  1,  2,  1,  1,  2,  2, 20,
      2,  3,  3,  3,  3,  3,  3,  2,  2,  2,  3,  3,  3,  3,  3,  3,  2,  2,  2, 18,
      2,  2,  2,  2,  2,  2,  2,  2,  2,  2,  2,  2,  2,  2,  2,  2,  2,  2,  2,  2,
      2,  2,  2,  2,  2,  2 >>

\* the lines of a file, each as its sequence of characters
Lines(file) == [n \in 1..Len(file) |-> LineShapes[file[n]]]

SourceFiles == [bitset_cpp |-> Lines(bitset_cpp), algorithm_cpp |-> Lines(algorithm_cpp)]

\* line[i] and line[i+1] are the two characters a then b
At(line, i, a, b) == i < Len(line) /\ line[i] = a /\ line[i + 1] = b

\* a scan that does not know the line comment
RECURSIVE scan_block_only(_, _, _, _)
scan_block_only(line, i, state, active) ==
  IF i > Len(line) THEN [state |-> state, active |-> active]
  ELSE IF state = "comment"
    THEN IF At(line, i, "*", "/") THEN scan_block_only(line, i + 2, "code", active)
         ELSE scan_block_only(line, i + 1, state, active)
  ELSE IF At(line, i, "/", "*") THEN scan_block_only(line, i + 2, "comment", active)
  ELSE scan_block_only(line, i + 1, state, active \/ line[i] # " ")

\* Translation phase 3 on one line, from character i on: state is
\* "comment" inside a /* */ comment and "code" outside; a // outside a
\* comment ends the line; active says that the line has a character that is
\* neither white space nor part of a comment.
RECURSIVE scan_from(_, _, _, _)
scan_from(line, i, state, active) ==
  IF i > Len(line) THEN [state |-> state, active |-> active]
  ELSE IF state = "comment"
    THEN IF At(line, i, "*", "/") THEN scan_from(line, i + 2, "code", active)
         ELSE scan_from(line, i + 1, state, active)
  ELSE IF At(line, i, "/", "/") THEN [state |-> state, active |-> active]
  ELSE IF At(line, i, "/", "*") THEN scan_from(line, i + 2, "comment", active)
  ELSE scan_from(line, i + 1, state, active \/ line[i] # " ")

scan(line, state) == scan_from(line, 1, state, FALSE)

\* The compiler starts a file outside any comment, with nothing to compile.
Scan_Init ==
  /\ prog \in DOMAIN SourceFiles
  /\ pc = "line"
  /\ input = SourceFiles[prog]
  /\ mem = [line |-> 1, state |-> "code"]
  /\ out = <<>>

\* the next line is read; a line with active code is kept for compilation
Scan_Line ==
  /\ prog \in DOMAIN SourceFiles
  /\ pc = "line"
  /\ mem.line <= Len(input)
  /\ LET r == scan(input[mem.line], mem.state)
     IN /\ mem' = [line |-> mem.line + 1, state |-> r.state]
        /\ out' = IF r.active THEN Append(out, mem.line) ELSE out
  /\ UNCHANGED <<prog, pc, input>>

Scan_EndOfFile ==
  /\ prog \in DOMAIN SourceFiles
  /\ pc = "line"
  /\ mem.line > Len(input)
  /\ pc' = "done"
  /\ UNCHANGED <<prog, input, mem, out>>

NextScan == Scan_Line \/ Scan_EndOfFile

SpecScan == Scan_Init /\ [][NextScan]_vars

(***************************************************************************)
(* algorithm.cpp Example 22: std::set_intersection                         *)
(***************************************************************************)

RECURSIVE set_intersection_from(_, _, _, _)
\* std::set_intersection from positions i of a and j of b on: a smaller head
\* of a is passed; of two equivalent heads the one of a is copied and both
\* are passed; a smaller head of b is passed
set_intersection_from(a, b, i, j) ==
  IF i > Len(a) \/ j > Len(b) THEN <<>>
  ELSE IF less[a[i], b[j]] THEN set_intersection_from(a, b, i + 1, j)
  ELSE IF less[b[j], a[i]] THEN set_intersection_from(a, b, i, j + 1)
  ELSE <<a[i]>> \o set_intersection_from(a, b, i + 1, j + 1)

\* std::set_intersection(first1, last1, first2, last2, d_first): the elements written
set_intersection(a, b) == set_intersection_from(a, b, 1, 1)

A22 == "algorithm.Example22"

A22_Literal == << <<1, 2, 3, 4, 5>>, <<3, 4, 5, 6, 7>> >>

\* the sorted ranges Example 22 is run on: every set of values of the literals
A22_Inputs == {SortedSeq(S) : S \in SUBSET {1, 2, 3, 4, 5, 6, 7}}

A22_Init ==
  /\ prog = A22
  /\ input \in A22_Inputs \X A22_Inputs
  /\ pc = "L691"
  /\ mem = NoLocals
  /\ out = <<>>

A22_L691 == Step(A22, "L691", "L692", Declare("set1", input[1]), out)
A22_L692 == Step(A22, "L692", "L693", Declare("set2", input[2]), out)
A22_L693 == Step(A22, "L693", "L696",
                 Declare("result", vector(Min(Len(mem.set1), Len(mem.set2)))), out)
A22_L696 ==
  LET w == set_intersection(mem.set1, mem.set2)
  IN  Step(A22, "L696", "L699",
           DeclareIn([mem EXCEPT !.result = write(mem.result, w)], "it", Len(w)), out)
A22_L699 == Step(A22, "L699", "L702",
                 [mem EXCEPT !.result = resize(mem.result, mem.it)], out)
A22_L702 == Step(A22, "L702", "done", mem, cout("Intersection: ", mem.result))

(***************************************************************************)
(* The set operations of algorithm.cpp: Examples 11, 22 and 23             *)
(***************************************************************************)

InitSetOperations == A11_Init \/ A22_Init \/ A23_Init

NextSetOperations ==
  \/ A11_L416 \/ A11_L417 \/ A11_L418 \/ A11_L421 \/ A11_L422 \/ A11_L425
  \/ A22_L691 \/ A22_L692 \/ A22_L693 \/ A22_L696 \/ A22_L699 \/ A22_L702
  \/ A23_L722 \/ A23_L723 \/ A23_L724 \/ A23_L727 \/ A23_L731 \/ A23_L734

SpecSetOperations == InitSetOperations /\ [][NextSetOperations]_vars

(***************************************************************************)
(* Properties                                                              *)
(***************************************************************************)

\* example p is running on the literal(s) lit of the source
Runs(p, lit) == prog = p /\ input = lit

\* example p has run to its return statement on the literal(s) lit
Ran(p, lit) == Runs(p, lit) /\ pc = "done"

\* s is the beginning of t
IsPrefix(s, t) == Len(s) <= Len(t) /\ \A i \in 1..Len(s) : s[i] = t[i]

\* a and b hold the same elements, each as many times
SameElements(a, b) ==
  /\ Len(a) = Len(b)
  /\ \A i \in 1..Len(a) :
       Cardinality({k \in 1..Len(a) : a[k] = a[i]})
         = Cardinality({k \in 1..Len(b) : b[k] = a[i]})

\* the values held by sequence a
Elements(a) == {a[i] : i \in 1..Len(a)}

\* C1: Example 2 of algorithm.cpp prints a rearrangement of its vector in
\* which every element is greater than or equal to the one after it; for the
\* vector {10, 20, 5, 15, 30} of the source the line printed is
\* "Sorted in descending order: 30 20 15 10 5".
C1_SortDescending ==
  (prog = A2 /\ pc = "done") =>
    /\ Len(out) = 1
    /\ out[1].label = "Sorted in descending order: "
    /\ SameElements(out[1].val, input[1])
    /\ \A i \in 1..(Len(out[1].val) - 1) : out[1].val[i] >= out[1].val[i + 1]
    /\ (input = <<A2_Literal>> => out[1].val = <<30, 20, 15, 10, 5>>)

C1_Witness == Ran(A2, <<A2_Literal>>) /\ mem.nums = <<30, 20, 15, 10, 5>>

\* C2: Example 2 of bitset.cpp, run on 10101010, prints
\* "After modifications: 10101011", the output the source documents.
C2_DocumentedOutput ==
  Ran(B2, <<B2_Literal>>) =>
    out = <<Line("After modifications: ", <<1, 0, 1, 0, 1, 0, 1, 1>>)>>

\* C3: Example 4 of bitset.cpp, run on 11010010, prints "Number of set bits: 4"
\* and "Is bit 3 set? 1", the output the source documents.
C3_DocumentedOutput ==
  Ran(B4, <<B4_Literal>>) =>
    out = <<Line("Number of set bits: ", <<4>>), Line("Is bit 3 set? ", <<1>>)>>

\* C4: Example 8 of bitset.cpp, run on 1101 and 1011, prints
\* "Binary addition result: 000011000", the output the source documents.
C4_DocumentedOutput ==
  Ran(B8, B8_Literal) =>
    out = <<Line("Binary addition result: ", <<0, 0, 0, 0, 1, 1, 0, 0, 0>>)>>

\* C5: Example 3 of bitset.cpp, run on 1100 and 1010, prints b1 & b2 as 1000,
\* b1 | b2 as 1110 and b1 ^ b2 as 0110, the output the source documents.
C5_DocumentedOutput ==
  Ran(B3, B3_Literal) =>
    out = <<Line("b1 & b2: ", <<1, 0, 0, 0>>),
            Line("b1 | b2: ", <<1, 1, 1, 0>>),
            Line("b1 ^ b2: ", <<0, 1, 1, 0>>)>>

\* C6: Example 1 of bitset.cpp, run on 10101010, holds 10101011 after set(0),
\* 10101001 after reset(1) and 01010110 after flip(); on that last state
\* count() is 4 and test(2) is 1, and the six lines printed are the documented
\* ones.
C6_Example1States ==
  Runs(B1, <<B1_Literal>>) =>
    /\ pc = "L142" => to_string(mem.bits) = <<1, 0, 1, 0, 1, 0, 1, 1>>
    /\ pc = "L145" => to_string(mem.bits) = <<1, 0, 1, 0, 1, 0, 0, 1>>
    /\ pc = "L148" => to_string(mem.bits) = <<0, 1, 0, 1, 0, 1, 1, 0>>
    /\ pc = "done" =>
         out = <<Line("Initial bitset: ", <<1, 0, 1, 0, 1, 0, 1, 0>>),
                 Line("After setting 0th bit: ", <<1, 0, 1, 0, 1, 0, 1, 1>>),
                 Line("After resetting 1st bit: ", <<1, 0, 1, 0, 1, 0, 0, 1>>),
                 Line("After flipping all bits: ", <<0, 1, 0, 1, 0, 1, 1, 0>>),
                 Line("Number of set bits: ", <<4>>),
                 Line("Bit at position 2: ", <<1>>)>>

C6_Witness == Ran(B1, <<B1_Literal>>) /\ Len(out) = 6 /\ count(mem.bits) = 4

\* C7: Example 10 of algorithm.cpp, run on {3, 1, 4, 1, 5, 9, 2}, prints
\* "After nth_element (3rd smallest): 1 1 2 3 4 5 9" whatever rearrangement
\* std::nth_element produces.
C7_DocumentedOutput ==
  Ran(A10, <<A10_Literal>>) =>
    out = <<Line("After nth_element (3rd smallest): ", <<1, 1, 2, 3, 4, 5, 9>>)>>

\* the six lines Example 19 documents
C8_Lines ==
  <<Line("", <<1, 2, 3>>), Line("", <<1, 3, 2>>), Line("", <<2, 1, 3>>),
    Line("", <<2, 3, 1>>), Line("", <<3, 1, 2>>), Line("", <<3, 2, 1>>)>>

\* C8: Example 19 of algorithm.cpp, started from {1, 2, 3}, prints the six
\* permutations of {1, 2, 3} in lexicographic order, each once and nothing
\* else, and then leaves the loop.
C8_AllPermutations ==
  /\ [](Runs(A19, <<A19_Literal>>) =>
          /\ IsPrefix(out, C8_Lines)
          /\ (pc = "done" => out = C8_Lines))
  /\ (Runs(A19, <<A19_Literal>>) ~> (pc = "done" /\ out = C8_Lines))

C8_Witness == Ran(A19, <<A19_Literal>>) /\ Len(out) = 6 /\ mem.nums = <<1, 2, 3>>

\* C9: Example 4 of algorithm.cpp, run on {1, 2, 3, 4, 5, 6}: whatever
\* arrangement std::partition leaves (the even elements before the odd ones,
\* the returned position at the first odd one), sorting the two parts gives
\* 2 4 6 1 3 5, the line the program prints.
C9_PartitionThenSort ==
  Runs(A4, <<A4_Literal>>) =>
    /\ pc \in {"L231", "L234", "L237", "done"} =>
         /\ mem.partition_point = 3
         /\ Elements(SubSeq(mem.nums, 1, 3)) = {2, 4, 6}
         /\ Elements(SubSeq(mem.nums, 4, 6)) = {1, 3, 5}
    /\ pc \in {"L237", "done"} => mem.nums = <<2, 4, 6, 1, 3, 5>>
    /\ pc = "done" => out = <<Line("Partitioned (evens first): ", <<2, 4, 6, 1, 3, 5>>)>>

C9_Witness ==
  Runs(A4, <<A4_Literal>>) /\ pc = "L231" /\ mem.nums = <<6, 2, 4, 3, 5, 1>>

\* C10: Example 11 of algorithm.cpp prints a strictly increasing sequence
\* holding exactly the values that occur in either of its sorted ranges, each
\* once; for {1, 3, 5, 7} and {3, 5, 8, 9} the line printed is
\* "Union: 1 3 5 7 8 9".
C10_SetUnion ==
  (prog = A11 /\ pc = "done") =>
    /\ Len(out) = 1
    /\ out[1].label = "Union: "
    /\ out[1].val = mem.result
    /\ \A i \in 1..(Len(mem.result) - 1) : mem.result[i] < mem.result[i + 1]
    /\ Elements(mem.result) = Elements(input[1]) \cup Elements(input[2])
    /\ (input = A11_Literal => mem.result = <<1, 3, 5, 7, 8, 9>>)

C10_Witness == Ran(A11, A11_Literal) /\ mem.it = 6 /\ Len(mem.result) = 6


\* C11: Example 23 of algorithm.cpp prints, in increasing order, exactly the
\* elements of its first sorted range that do not occur in the second; for
\* {1, 2, 3, 4, 5} and {3, 4, 5, 6, 7} the line printed is "Difference: 1 2".
C11_SetDifference ==
  (prog = A23 /\ pc = "done") =>
    /\ out = <<Line("Difference: ", mem.result)>>
    /\ mem.result = SortedSeq(Elements(input[1]) \ Elements(input[2]))
    /\ (input = A23_Literal => mem.result = <<1, 2>>)

C11_Witness == Ran(A23, A23_Literal) /\ mem.it = 2 /\ mem.result = <<1, 2>>

\* C12: Example 10 of bitset.cpp prints, for each permission bitset, the
\* character of its string that stands for the bit tested: the middle one for
\* userPerms.test(1), the last one for groupPerms.test(0); for 101 and 110
\* the lines are "User has write permission: 0" and
\* "Group has execute permission: 0", after the two bitsets themselves.
C12_Permissions ==
  (prog = B10 /\ pc = "done") =>
    /\ Len(out) = 4
    /\ out[1] = Line("User Permissions: ", input[1])
    /\ out[2] = Line("Group Permissions: ", input[2])
    /\ out[3] = Line("User has write permission: ", <<input[1][2]>>)
    /\ out[4] = Line("Group has execute permission: ", <<input[2][3]>>)
    /\ (input = B10_Literal => out[3].val = <<0>> /\ out[4].val = <<0>>)

C12_Witness ==
  Ran(B10, B10_Literal) /\ test(mem.userPerms, 1) = 0 /\ test(mem.groupPerms, 0) = 0

\* the characters of s in the opposite order
Reversed(s) == [k \in 1..Len(s) |-> s[Len(s) + 1 - k]]

\* C13: Example 9 of bitset.cpp prints 1 for a bitset whose string reads the
\* same in both directions and 0 for any other; for 10000001 it prints
\* "b1 is palindrome: 1" and for 11001001 "b2 is palindrome: 0".
C13_IsPalindrome ==
  (prog = B9 /\ pc = "done") =>
    /\ out = <<Line("b1 is palindrome: ", <<IF input[1] = Reversed(input[1]) THEN 1 ELSE 0>>),
               Line("b2 is palindrome: ", <<IF input[2] = Reversed(input[2]) THEN 1 ELSE 0>>)>>
    /\ (input = B9_Literal => out[1].val = <<1>> /\ out[2].val = <<0>>)

C13_Witness ==
  Ran(B9, B9_Literal) /\ isPalindrome(mem.b1) = 1 /\ isPalindrome(mem.b2) = 0

\* the elements of v that differ from the element before them, in order
RECURSIVE RunHeads(_)
RunHeads(v) ==
  IF Len(v) <= 1 THEN v
  ELSE LET front == RunHeads(SubSeq(v, 1, Len(v) - 1))
       IN  IF v[Len(v)] = v[Len(v) - 1] THEN front ELSE Append(front, v[Len(v)])

\* C14: Example 3 of algorithm.cpp prints the first element of every run of
\* equal adjacent elements of its vector, in the order of the vector; for
\* {1, 1, 2, 2, 3, 4, 4, 5} the line is "After removing duplicates: 1 2 3 4 5".
C14_Unique ==
  (prog = A3 /\ pc = "done") =>
    /\ out = <<Line("After removing duplicates: ", mem.nums)>>
    /\ mem.nums = RunHeads(input[1])
    /\ \A i \in 1..(Len(mem.nums) - 1) : mem.nums[i] # mem.nums[i + 1]
    /\ (input = <<A3_Literal>> => mem.nums = <<1, 2, 3, 4, 5>>)

C14_Witness == Ran(A3, <<A3_Literal>>) /\ mem.it = 5 /\ mem.nums = <<1, 2, 3, 4, 5>>

\* C15: within one grouping of the catalogue (a row of the function list,
\* the numbered examples, the non-modifying examples, the bitset feature
\* table, the bitset examples) no operation name heads more than one
\* entry: the names heading the entry the reader is at were not seen on an
\* earlier entry of the same grouping.  The code violates this: Example 16
\* and Example 17 of algorithm.cpp are both headed std::inplace_merge.
C15_UniqueNames ==
  (prog \in DOMAIN Groupings /\ pc = "entry" /\ mem.next <= Len(input))
    => input[mem.next] \cap mem.seen = {}

\* C16: for every topic, the number of entries the catalogue holds for it
\* equals the number of names the function list enumerates for it: when the
\* reader has gone through a topic's section, it has read as many entries
\* as the topic's row has names.  The code violates this: 9 entries under
\* "Non-modifying sequence operations", 16 names on the row.
C16_EntryCount ==
  (prog \in DOMAIN EnumeratedBy /\ pc = "done")
    => mem.next - 1 = Len(Groupings[EnumeratedBy[prog]])

\* C17: no code of either source file is active: every line is blank,
\* inside a block comment or a line comment, so the compiler is left with
\* nothing to compile from the lines it has read.
C17_NoActiveCode == prog \in DOMAIN SourceFiles => out = <<>>

\* both kinds of comment occur: algorithm.cpp has been read to its end, its
\* last block comment closed
C17_Witness ==
  /\ prog = "algorithm_cpp"
  /\ pc = "done"
  /\ mem.line = Len(algorithm_cpp) + 1
  /\ mem.state = "code"
  /\ out = <<>>

\* C20: for every pair of 8-bit inputs the carry loop of Example 8
\* terminates after at most 8 iterations: the body of the loop is never
\* entered more than 8 times, and the program never stops before its return
\* statement, so every run ends.
C20_LoopTerminates ==
  prog = B8 => /\ B8_Iterations <= BitsetSize
               /\ pc # "done" => ENABLED NextExample8

\* the longest carry chain, 01111111 + 00000001, has run to the end
C20_Witness ==
  /\ Ran(B8, << <<0, 1, 1, 1, 1, 1, 1, 1>>, <<0, 0, 0, 0, 0, 0, 0, 1>> >>)
  /\ B8_Iterations = BitsetSize - 1
  /\ ~any(mem.carry)

\* the number of values of a std::bitset<8>
Modulus == 2 ^ BitsetSize

\* C21: for every pair of 8-bit inputs, once the carry loop of Example 8
\* has ended, result read as an unsigned integer is (b1 + b2) mod 256, and
\* the line printed is that result; for 13 and 11 it is 24.
C21_BinaryAddition ==
  (prog = B8 /\ pc \in {"L348", "done"})
    => /\ to_ulong(mem.result) = (to_ulong(mem.b1) + to_ulong(mem.b2)) % Modulus
       /\ (to_ulong(mem.b1) = 13 /\ to_ulong(mem.b2) = 11) => to_ulong(mem.result) = 24
       /\ pc = "done" => out = <<Line("Binary addition result: ", to_string(mem.result))>>

\* 13 + 11 has been added, through the loop, and 24 printed
C21_Witness ==
  /\ Ran(B8, << <<0, 0, 0, 0, 1, 1, 0, 1>>, <<0, 0, 0, 0, 1, 0, 1, 1>> >>)
  /\ to_ulong(mem.result) = 24
  /\ B8_Iterations > 0
  /\ out = <<Line("Binary addition result: ", <<0, 0, 0, 1, 1, 0, 0, 0>>)>>

\* C22: at every evaluation of the loop condition of Example 8, before the
\* first iteration and after each one, (result + carry) mod 256 equals
\* (b1 + b2) mod 256, for every pair of 8-bit inputs.
C22_LoopInvariant ==
  (prog = B8 /\ pc = "L342")
    => (to_ulong(mem.result) + to_ulong(mem.carry)) % Modulus
         = (to_ulong(mem.b1) + to_ulong(mem.b2)) % Modulus

\* the condition is evaluated after an iteration with a carry still to add
\* on a sum that wraps: 11111111 + 00000011 after its first iteration
C22_Witness ==
  /\ Runs(B8, << <<1, 1, 1, 1, 1, 1, 1, 1>>, <<0, 0, 0, 0, 0, 0, 1, 1>> >>)
  /\ pc = "L342"
  /\ B8_Iterations = 1
  /\ any(mem.carry)
  /\ to_ulong(mem.result) + to_ulong(mem.carry) > to_ulong(mem.b1)

\* C23: in Examples 11, 22 and 23 the set operation never writes past the
\* end of the pre-sized result: when the operation has returned, and before
\* the resize, the end position it returned is at most size1 + size2 for
\* set_union, min(size1, size2) for set_intersection and max(size1, size2)
\* for set_difference, and never beyond the size result was given.
C23_WithinResult ==
  LET size1 == Len(mem.set1)
      size2 == Len(mem.set2)
  IN  /\ (prog = A11 /\ pc = "L422") => mem.it <= size1 + size2
      /\ (prog = A22 /\ pc = "L699") => mem.it <= Min(size1, size2)
      /\ (prog = A23 /\ pc = "L731") => mem.it <= Max(size1, size2)
      /\ (prog \in {A11, A22, A23} /\ pc \in {"L422", "L699", "L731"})
           => mem.it <= Len(mem.result)

\* set_difference has filled its result to the last allocated element:
\* the longer range 1 2 3 4 5 less the disjoint range 6 7
C23_Witness ==
  /\ Runs(A23, << <<1, 2, 3, 4, 5>>, <<6, 7>> >>)
  /\ pc = "L731"
  /\ mem.it = Len(mem.result)
  /\ mem.it = Max(Len(mem.set1), Len(mem.set2))
  /\ SubSeq(mem.result, 1, mem.it) = mem.set1
====
